---- MODULE Spec2Model ----
(***************************************************************************)
(* Model of src/asynchronous/embassy/mod.rs of the tps6699x driver: the    *)
(* Controller (device mutex, interrupt signal, interrupt mask), the        *)
(* command view Tps6699x, the interrupt view Interrupt and InterruptGuard. *)
(*                                                                         *)
(* Two cooperative tasks are modelled, one driving each view.  An action   *)
(* is the code a task runs between two suspension points (.await that      *)
(* returns Pending): a contended Mutex::lock, a bus transaction, and       *)
(* Signal::wait on an empty signal.                                        *)
(*                                                                         *)
(* InterruptGuard<'_> mutably borrows the command view it was made from,   *)
(* so while a guard is alive no other method of the command view can be    *)
(* called, and no second guard can be made.                                *)
(***************************************************************************)
EXTENDS Integers, Sequences, FiniteSets, TLC

\* How many event bits the device raises in a run
MaxEvents == 2

\* crate::MAX_SUPPORTED_PORTS, the width of the mask and of a snapshot: the
\* length of the address array [addr, 0] that new_tps66993 passes
MAX_SUPPORTED_PORTS == 2

\* Port slots of the mask array and of a snapshot
Slots == 0 .. (MAX_SUPPORTED_PORTS - 1)

\* PortId values a caller can pass: every slot and one index past the width
PortIds == 0 .. MAX_SUPPORTED_PORTS

\* The bits of IntEventBus1 the code distinguishes: cmd_1_completed and
\* any other event bit
EventBits == {"cmd1", "other"}

\* IntEventBus1::new_zero() in every slot
ZeroFlags == [p \in Slots |-> {}]

\* [bool; MAX_SUPPORTED_PORTS] values
Masks == [Slots -> BOOLEAN]

AllEnabled == [p \in Slots |-> TRUE]

AllDisabled == [p \in Slots |-> FALSE]

VARIABLES
    numPorts,            \* Controller.num_ports
    interrupts_enabled,  \* Controller.interrupts_enabled, one AtomicBool per slot
    interrupt_waker,     \* Controller.interrupt_waker: <<>> or <<snapshot>>
    inner,               \* holder of the Controller.inner mutex: "free", "cmd", "int"
    devCause,            \* device: pending interrupt cause of each port
    events,              \* how many events the device has raised so far
    guard,               \* the live InterruptGuard: <<>> or <<target_state>>
    cmdPc,               \* where the command task is suspended
    cmdCall,             \* the command view call in progress, or the last one
    cmdResult,           \* what that call returned
    waitFlags,           \* what wait_interrupt returned: <<>> or <<snapshot>>
    sawCompletion,       \* history: wait() handed the command a snapshot with
                         \* the completed bit of its port
    waitHist,            \* history of wait_interrupt: a snapshot was pending at
                         \* call time (atCall), and it is the one returned (got)
    preMask,             \* history: the mask just before the last guard call
    sends,               \* history: send_command calls of the current command
    reads,               \* history: read_command_result calls of the current command
    completionPublished, \* history: a satisfying snapshot was published for it
    replaced,            \* history: the snapshot pending for the suspended waiter,
                         \* or returned by wait_interrupt, took the place of one
                         \* published after the waiter suspended and not delivered
    intPc,               \* where the interrupt task is suspended
    intEnabled,          \* process_interrupt's local interrupts_enabled
    flags,               \* process_interrupt's local flags
    intPort,             \* process_interrupt's loop variable port
    intResult,           \* what the last process_interrupt returned
    intPubs,             \* history: signal() calls of the current process_interrupt
    intCleared,          \* history: ports it called clear_interrupt on
    intClearedOff        \* history: those whose mask entry was disabled at that time

ctrlVars == <<numPorts, interrupts_enabled, interrupt_waker, inner>>
envVars == <<devCause, events>>
cmdVars == <<cmdPc, cmdCall, cmdResult, waitFlags, sawCompletion, waitHist,
             sends, reads, completionPublished, replaced>>
guardVars == <<guard, preMask>>
intVars == <<intPc, intEnabled, flags, intPort, intResult, intPubs, intCleared,
             intClearedOff>>
vars == <<ctrlVars, envVars, cmdVars, guardVars, intVars>>

----------------------------------------------------------------------------
\* Predicates passed to wait_interrupt

\* Variant: the closure without its port test
CmdCompletedAnyPort(port, p, fl) == "cmd1" \in fl

\* |p, flags| p == port && flags.cmd_1_completed()
CmdCompletedOn(port, p, fl) == p = port /\ "cmd1" \in fl

\* A caller's predicate that accepts any non-zero slot
AnyEvent(p, fl) == fl # {}

PredCmd(port) == [kind |-> "cmd1", port |-> port]
PredAny == [kind |-> "any", port |-> 0]
Preds == {PredCmd(p) : p \in Slots} \cup {PredAny}

ApplyPred(f, p, fl) ==
    IF f.kind = "cmd1" THEN CmdCompletedOn(f.port, p, fl) ELSE AnyEvent(p, fl)

\* for (port, flag) in flags.iter().enumerate() { if f(PortId(port), *flag) ...
Satisfies(f, snap) == \E p \in Slots : ApplyPred(f, p, snap[p])

NoWaitHist == [atCall |-> FALSE, got |-> FALSE]

NoCall == [op |-> "none", port |-> 0, timed |-> FALSE, clear |-> FALSE,
           pred |-> PredAny, enabled |-> FALSE, mask |-> AllEnabled]

----------------------------------------------------------------------------
\* The interrupt line is shared by the ports and driven by every pending
\* cause; InputPin::is_high() is Ok(true) when the line is not asserted
IrqAsserted(dev) == \E p \in Slots : dev[p] # {}
is_high(dev) == ~IrqAsserted(dev)

TypeOK ==
    /\ numPorts \in 1 .. MAX_SUPPORTED_PORTS
    /\ interrupts_enabled \in Masks
    /\ interrupt_waker \in {<<>>} \cup {<<s>> : s \in [Slots -> SUBSET EventBits]}
    /\ inner \in {"free", "cmd", "int"}
    /\ devCause \in [Slots -> SUBSET EventBits]
    /\ events \in 0 .. MaxEvents
    /\ guard \in {<<>>} \cup {<<m>> : m \in Masks}
    /\ cmdPc \in {"idle", "lock1", "sending", "waiting", "lock3", "reading",
                  "lockG", "getting"}
    /\ cmdResult \in {"none", "Ok", "BusError", "Timeout", "InvalidPort"}
    /\ sends \in Nat /\ reads \in Nat
    /\ intPc \in {"idle", "lock", "clearing"}
    /\ intResult \in {"none", "Ok", "BusError", "Failed"}

\* Controller::new: every AtomicBool true, an empty signal, a free mutex
Init ==
    /\ numPorts \in 1 .. MAX_SUPPORTED_PORTS
    /\ interrupts_enabled = AllEnabled
    /\ interrupt_waker = <<>>
    /\ inner = "free"
    /\ devCause = ZeroFlags
    /\ events = 0
    /\ guard = <<>>
    /\ cmdPc = "idle"
    /\ cmdCall = NoCall
    /\ cmdResult = "none"
    /\ waitFlags = <<>>
    /\ sawCompletion = FALSE
    /\ waitHist = NoWaitHist
    /\ preMask = AllEnabled
    /\ sends = 0
    /\ reads = 0
    /\ completionPublished = FALSE
    /\ replaced = FALSE
    /\ intPc = "idle"
    /\ intEnabled = AllEnabled
    /\ flags = ZeroFlags
    /\ intPort = 0
    /\ intResult = "none"
    /\ intPubs = 0
    /\ intCleared = {}
    /\ intClearedOff = {}

----------------------------------------------------------------------------
\* Controller helpers

\* Controller::interrupts_enabled: a copy of the mask, slot by slot
InterruptsEnabled == [p \in Slots |-> interrupts_enabled[p]]

\* Controller::enable_interrupts: stores enabled into the mask, slot by slot
EnableInterrupts(enabled) == interrupts_enabled' = [p \in Slots |-> enabled[p]]

----------------------------------------------------------------------------
\* InterruptGuard

\* Variant: the mask is captured after `enabled` is installed
InterruptGuardNewCapturesAfter(enabled) ==
    /\ EnableInterrupts(enabled)
    /\ guard' = <<enabled>>

\* InterruptGuard::new: capture the current mask, then install `enabled`
InterruptGuardNew(enabled) ==
    /\ guard' = <<InterruptsEnabled>>
    /\ EnableInterrupts(enabled)

\* The command view is free for a new call: no call in progress and no guard
\* borrowing it
ViewFree == cmdPc = "idle" /\ guard = <<>>

\* A guard call starts: it returns at once, so all the command task changes
\* is the record of the call; the history of the call before it is dropped
GuardCallStarts(call) ==
    /\ ViewFree
    /\ cmdCall' = call
    /\ preMask' = interrupts_enabled
    /\ waitFlags' = <<>>
    /\ sawCompletion' = FALSE
    /\ waitHist' = NoWaitHist
    /\ sends' = 0
    /\ reads' = 0
    /\ completionPublished' = FALSE
    /\ replaced' = FALSE
    /\ UNCHANGED <<numPorts, interrupt_waker, inner, envVars, cmdPc, intVars>>

\* Tps6699x::enable_interrupts_guarded
EnableInterruptsGuarded(enabled) ==
    /\ GuardCallStarts([NoCall EXCEPT !.op = "guard_mask", !.mask = enabled])
    /\ InterruptGuardNew(enabled)
    /\ cmdResult' = "Ok"

\* Variant: the port is checked against the width of the mask
PortPastWidth(port) == port >= MAX_SUPPORTED_PORTS

\* port.0 as usize >= self.controller.num_ports
PortIsInvalid(port) == port >= numPorts

\* Variant: the state starts from a fresh array, not from the current mask
GuardedPortStateFresh(port, enabled) == [AllDisabled EXCEPT ![port] = enabled]

\* let mut state = interrupts_enabled(); state[port] = enabled;
GuardedPortState(port, enabled) == [InterruptsEnabled EXCEPT ![port] = enabled]

\* Tps6699x::enable_interrupt_guarded
EnableInterruptGuarded(port, enabled) ==
    /\ GuardCallStarts([NoCall EXCEPT !.op = "guard_port", !.port = port,
                                      !.enabled = enabled])
    /\ IF PortIsInvalid(port)
       THEN /\ cmdResult' = "InvalidPort"
            /\ UNCHANGED <<guard, interrupts_enabled>>
       ELSE /\ cmdResult' = "Ok"
            /\ InterruptGuardNew(GuardedPortState(port, enabled))

\* Tps6699x::disable_all_interrupts_guarded
DisableAllInterruptsGuarded ==
    /\ GuardCallStarts([NoCall EXCEPT !.op = "guard_none", !.mask = AllDisabled])
    /\ InterruptGuardNew(AllDisabled)
    /\ cmdResult' = "Ok"

\* Variant: dropping the guard leaves the mask as the guard set it
InterruptGuardDropKeepsMask ==
    /\ guard # <<>>
    /\ guard' = <<>>
    /\ UNCHANGED <<numPorts, interrupts_enabled, interrupt_waker, inner, envVars,
                   cmdVars, preMask, intVars>>

\* Drop for InterruptGuard: reinstall target_state
InterruptGuardDrop ==
    /\ guard # <<>>
    /\ EnableInterrupts(guard[1])
    /\ guard' = <<>>
    /\ UNCHANGED <<numPorts, interrupt_waker, inner, envVars, cmdVars, preMask,
                   intVars>>

----------------------------------------------------------------------------
\* Environment: the device

\* The device raises an event bit on one of its ports
DeviceEvent(p, b) ==
    /\ events < MaxEvents
    /\ p < numPorts
    /\ b \notin devCause[p]
    /\ devCause' = [devCause EXCEPT ![p] = @ \cup {b}]
    /\ events' = events + 1
    /\ UNCHANGED <<ctrlVars, cmdVars, guardVars, intVars>>

----------------------------------------------------------------------------
\* Interrupt view

\* Variant: a value that is pending is kept, the new one is dropped
SignalKeepsFirst(snap) ==
    interrupt_waker' = IF interrupt_waker = <<>> THEN <<snap>> ELSE interrupt_waker

\* Signal::signal: the value replaces whatever is pending
Signal(snap) == interrupt_waker' = <<snap>>

\* History: a snapshot that satisfies the running command's predicate is
\* published
NotePublished(snap) ==
    /\ completionPublished' =
           (completionPublished
            \/ (cmdCall.op = "exec" /\ cmdPc # "idle"
                /\ "cmd1" \in snap[cmdCall.port]))
    /\ replaced' = (cmdPc = "waiting" /\ interrupt_waker # <<>>)

\* Variant: the loop without the test of interrupts_enabled[port]
RECURSIVE ScanFromIgnoringMask(_, _, _, _)
ScanFromIgnoringMask(port, en, dev, faultAt) ==
    IF port >= numPorts THEN [kind |-> "done", port |-> port]
    ELSE IF port = faultAt THEN [kind |-> "failed", port |-> port]
    ELSE IF is_high(dev) THEN ScanFromIgnoringMask(port + 1, en, dev, faultAt)
    ELSE [kind |-> "clear", port |-> port]

\* Variant: the loop without the test of the pin's level
RECURSIVE ScanFromIgnoringPin(_, _, _, _)
ScanFromIgnoringPin(port, en, dev, faultAt) ==
    IF port >= numPorts THEN [kind |-> "done", port |-> port]
    ELSE IF ~en[port] THEN ScanFromIgnoringPin(port + 1, en, dev, faultAt)
    ELSE IF port = faultAt THEN [kind |-> "failed", port |-> port]
    ELSE [kind |-> "clear", port |-> port]

\* The for loop of process_interrupt from `port` up to the next suspension
\* point: where it stops and why.  en is the local interrupts_enabled, dev
\* the device's causes, which drive the pin, and faultAt the port at which
\* reading the pin fails (none when it is no port of the device)
RECURSIVE ScanFrom(_, _, _, _)
ScanFrom(port, en, dev, faultAt) ==
    IF port >= numPorts THEN [kind |-> "done", port |-> port]
    ELSE IF ~en[port] THEN ScanFrom(port + 1, en, dev, faultAt)
    ELSE IF port = faultAt THEN [kind |-> "failed", port |-> port]
    ELSE IF is_high(dev) THEN ScanFrom(port + 1, en, dev, faultAt)
    ELSE [kind |-> "clear", port |-> port]

\* process_interrupt from the top of the loop at `port`, holding the mutex,
\* to its next suspension point or its return.  fl is the local flags, h the
\* history of the call so far
IntScan(port, en, fl, dev, faultAt, h) ==
    LET r == ScanFrom(port, en, dev, faultAt) IN
    /\ flags' = fl
    /\ intEnabled' = en
    /\ devCause' = dev
    /\ CASE r.kind = "clear" ->
              \* inner.clear_interrupt(port_id).await
              /\ inner' = "int"
              /\ intPc' = "clearing"
              /\ intPort' = r.port
              /\ intResult' = "none"
              /\ intPubs' = h.pubs
              /\ intCleared' = h.cleared \cup {r.port}
              /\ intClearedOff' = h.off \cup
                     (IF interrupts_enabled[r.port] THEN {} ELSE {r.port})
              /\ UNCHANGED <<interrupt_waker, completionPublished, replaced>>
         [] r.kind = "failed" ->
              \* return PdError::Failed.into(): the MutexGuard is dropped
              /\ inner' = "free"
              /\ intPc' = "idle"
              /\ intPort' = 0
              /\ intResult' = "Failed"
              /\ intPubs' = h.pubs
              /\ intCleared' = h.cleared
              /\ intClearedOff' = h.off
              /\ UNCHANGED <<interrupt_waker, completionPublished, replaced>>
         [] r.kind = "done" ->
              \* the block ends, the MutexGuard is dropped, then signal(flags)
              /\ inner' = "free"
              /\ Signal(fl)
              /\ NotePublished(fl)
              /\ intPc' = "idle"
              /\ intPort' = 0
              /\ intResult' = "Ok"
              /\ intPubs' = h.pubs + 1
              /\ intCleared' = h.cleared
              /\ intClearedOff' = h.off

NoHistory == [cleared |-> {}, off |-> {}, pubs |-> 0]
History == [cleared |-> intCleared, off |-> intClearedOff, pubs |-> intPubs]

\* Variant: a step of the interrupt task stores all-enabled into the mask
IntFrameReenables ==
    /\ interrupts_enabled' = AllEnabled
    /\ UNCHANGED <<numPorts, events, guardVars, cmdPc, cmdCall, cmdResult,
                   waitFlags, sawCompletion, waitHist, sends, reads>>

\* What a step of the interrupt task leaves alone
IntFrame ==
    UNCHANGED <<numPorts, interrupts_enabled, events, guardVars, cmdPc, cmdCall,
                cmdResult, waitFlags, sawCompletion, waitHist, sends, reads>>

\* Interrupt::process_interrupt is called: the mask is read once, then the
\* mutex is taken, at once when it is free
ProcessInterrupt(faultAt) ==
    /\ intPc = "idle"
    /\ IF inner = "free"
       THEN IntScan(0, InterruptsEnabled, ZeroFlags, devCause, faultAt, NoHistory)
       ELSE /\ intPc' = "lock"
            /\ intEnabled' = InterruptsEnabled
            /\ flags' = ZeroFlags
            /\ intPort' = 0
            /\ intResult' = "none"
            /\ intPubs' = 0
            /\ intCleared' = {}
            /\ intClearedOff' = {}
            /\ UNCHANGED <<inner, interrupt_waker, devCause, completionPublished,
                           replaced>>
    /\ IntFrame

\* Variant: the interrupt task goes on without the mutex being free
IntLockAcquiredBarging(faultAt) ==
    /\ intPc = "lock"
    /\ IntScan(0, intEnabled, flags, devCause, faultAt, History)
    /\ IntFrame

\* self.lock_inner().await returns in process_interrupt
IntLockAcquired(faultAt) ==
    /\ intPc = "lock"
    /\ inner = "free"
    /\ IntScan(0, intEnabled, flags, devCause, faultAt, History)
    /\ IntFrame

\* internal clear_interrupt(port): the port's cause is read and cleared
ClearInterrupt(dev, port) == [dev EXCEPT ![port] = {}]

\* inner.clear_interrupt(port_id).await returns: Ok(cause) is stored in the
\* port's slot and the loop goes on; Err(e) is returned by `?`
ClearInterruptDone(ok, faultAt) ==
    /\ intPc = "clearing"
    /\ IF ok
       THEN IntScan(intPort + 1, intEnabled,
                    [flags EXCEPT ![intPort] = devCause[intPort]],
                    ClearInterrupt(devCause, intPort), faultAt, History)
       ELSE /\ inner' = "free"
            /\ intPc' = "idle"
            /\ intPort' = 0
            /\ intResult' = "BusError"
            /\ UNCHANGED <<interrupt_waker, devCause, completionPublished, replaced,
                           intEnabled, flags, intPubs, intCleared, intClearedOff>>
    /\ IntFrame

----------------------------------------------------------------------------
\* Command view

\* What a step of the command task leaves alone
CmdFrame == UNCHANGED <<numPorts, interrupts_enabled, envVars, guardVars, intVars>>

\* A call of the command view starts: the history of the call before it is
\* dropped
CallStarts(call) ==
    /\ ViewFree
    /\ cmdCall' = call
    /\ sends' = IF call.op = "exec" /\ inner = "free" THEN 1 ELSE 0
    /\ completionPublished' = FALSE
    /\ replaced' = FALSE

\* Variant: clear_current is ignored
PendingNoReset(clear) == interrupt_waker

\* if clear_current { interrupt_waker.reset() }: what is pending afterwards
Pending(clear) == IF clear THEN <<>> ELSE interrupt_waker

\* One turn of wait_interrupt's loop on the pending value `pend`: wait()
\* takes it, and the predicate is tried on every slot
PollWait(pend, f) ==
    IF pend = <<>>
    THEN [done |-> FALSE, seen |-> <<>>]
    ELSE [done |-> Satisfies(f, pend[1]), seen |-> pend]

\* The command task after one turn r of wait_interrupt's loop: suspended in
\* wait() again, or wait_interrupt returns; in execute_command_no_timeout
\* phase 3 follows, which takes the mutex at once when it is free.
\* lockNow is the mutex holder at this point, stale tells that the value
\* was pending when wait_interrupt was called, prev is the history before
CmdAfterPoll(call, r, lockNow, stale, prev) ==
    /\ interrupt_waker' = <<>>
    /\ replaced' = (r.done /\ call.op = "wait" /\ prev.replaced)
    /\ sawCompletion' =
           (prev.saw \/ (call.op = "exec" /\ r.seen # <<>>
                         /\ "cmd1" \in r.seen[1][call.port]))
    /\ waitHist' = [atCall |-> prev.atCall, got |-> r.done /\ stale]
    /\ IF ~r.done
       THEN /\ cmdPc' = "waiting"
            /\ cmdResult' = "none"
            /\ waitFlags' = <<>>
            /\ inner' = lockNow
            /\ reads' = prev.reads
       ELSE IF call.op = "wait"
       THEN /\ cmdPc' = "idle"
            /\ cmdResult' = "Ok"
            /\ waitFlags' = r.seen
            /\ inner' = lockNow
            /\ reads' = prev.reads
       ELSE /\ cmdResult' = "none"
            /\ waitFlags' = <<>>
            /\ IF lockNow = "free"
               THEN inner' = "cmd" /\ cmdPc' = "reading" /\ reads' = prev.reads + 1
               ELSE inner' = lockNow /\ cmdPc' = "lock3" /\ reads' = prev.reads

Sight == [saw |-> sawCompletion, reads |-> reads, atCall |-> waitHist.atCall,
          replaced |-> replaced]

\* Tps6699x::wait_interrupt is called by the user of the view
WaitInterruptCall(clear, f) ==
    /\ CallStarts([NoCall EXCEPT !.op = "wait", !.clear = clear, !.pred = f])
    /\ CmdAfterPoll(cmdCall', PollWait(Pending(clear), f), inner, TRUE,
                    [saw |-> FALSE, reads |-> 0, atCall |-> interrupt_waker # <<>>,
                     replaced |-> FALSE])
    /\ CmdFrame

\* interrupt_waker.wait().await returns in wait_interrupt
WaitInterruptWake ==
    /\ cmdPc = "waiting"
    /\ interrupt_waker # <<>>
    /\ CmdAfterPoll(cmdCall, PollWait(interrupt_waker, cmdCall.pred), inner,
                    FALSE, Sight)
    /\ UNCHANGED <<cmdCall, sends, completionPublished>>
    /\ CmdFrame

\* A call that begins with self.lock_inner().await and a bus transaction:
\* the mutex is taken at once when it is free
LockThenBus(call, pcBus, pcLock) ==
    /\ CallStarts(call)
    /\ cmdResult' = "none"
    /\ waitFlags' = <<>>
    /\ sawCompletion' = FALSE
    /\ waitHist' = NoWaitHist
    /\ reads' = 0
    /\ IF inner = "free"
       THEN inner' = "cmd" /\ cmdPc' = pcBus
       ELSE inner' = inner /\ cmdPc' = pcLock
    /\ UNCHANGED interrupt_waker
    /\ CmdFrame

\* Tps6699x::execute_command (timed) or execute_command_no_timeout: phase 1
\* takes the mutex and starts send_command
ExecuteCommand(port, timed) ==
    /\ port < numPorts
    /\ LockThenBus([NoCall EXCEPT !.op = "exec", !.port = port, !.timed = timed,
                                  !.clear = TRUE, !.pred = PredCmd(port)],
                   "sending", "lock1")

\* The simple accessors get_port_status .. get_customer_use: take the mutex
\* and start the bus read
GetterCall == LockThenBus([NoCall EXCEPT !.op = "get"], "getting", "lockG")

\* self.lock_inner().await returns in the command view, and the bus
\* transaction that follows it starts
CmdLockAcquired ==
    /\ cmdPc \in {"lock1", "lock3", "lockG"}
    /\ inner = "free"
    /\ inner' = "cmd"
    /\ cmdPc' = CASE cmdPc = "lock1" -> "sending"
                  [] cmdPc = "lock3" -> "reading"
                  [] cmdPc = "lockG" -> "getting"
    /\ sends' = IF cmdPc = "lock1" THEN sends + 1 ELSE sends
    /\ reads' = IF cmdPc = "lock3" THEN reads + 1 ELSE reads
    /\ UNCHANGED <<interrupt_waker, cmdCall, cmdResult, waitFlags, sawCompletion,
                   waitHist, completionPublished, replaced>>
    /\ CmdFrame

\* Variant: the signal is reset before the error is returned
BusErrorAfterReset ==
    /\ inner' = "free"
    /\ cmdPc' = "idle"
    /\ cmdResult' = "BusError"
    /\ interrupt_waker' = <<>>
    /\ UNCHANGED <<waitFlags, sawCompletion, waitHist, reads, replaced>>

\* A bus transaction of the command view fails: the MutexGuard is dropped
\* and the error is returned
BusErrorReturned ==
    /\ inner' = "free"
    /\ cmdPc' = "idle"
    /\ cmdResult' = "BusError"
    /\ UNCHANGED <<interrupt_waker, waitFlags, sawCompletion, waitHist, reads,
                   replaced>>

\* Variant: the MutexGuard of phase 1 lives on into wait_interrupt
SendCommandDoneKeepsLock(ok) ==
    /\ cmdPc = "sending"
    /\ IF ok
       THEN CmdAfterPoll(cmdCall, PollWait(Pending(TRUE), cmdCall.pred), "cmd",
                         FALSE, Sight)
       ELSE BusErrorReturned
    /\ UNCHANGED <<cmdCall, sends, completionPublished>>
    /\ CmdFrame

\* inner.send_command(..).await returns: on Err `?` returns it; on Ok the
\* block ends, the MutexGuard is dropped, and wait_interrupt(true, ..) runs
SendCommandDone(ok) ==
    /\ cmdPc = "sending"
    /\ IF ok
       THEN CmdAfterPoll(cmdCall, PollWait(Pending(TRUE), cmdCall.pred), "free",
                         FALSE, Sight)
       ELSE BusErrorReturned
    /\ UNCHANGED <<cmdCall, sends, completionPublished>>
    /\ CmdFrame

\* Variant: the MutexGuard of phase 3 is leaked when the command returns
ReadCommandResultDoneKeepsLock(ok) ==
    /\ cmdPc = "reading"
    /\ inner' = inner
    /\ cmdPc' = "idle"
    /\ cmdResult' = IF ok THEN "Ok" ELSE "BusError"
    /\ UNCHANGED <<interrupt_waker, cmdCall, waitFlags, sawCompletion, waitHist,
                   sends, reads, completionPublished, replaced>>
    /\ CmdFrame

\* inner.read_command_result(..).await returns, and the command with it
ReadCommandResultDone(ok) ==
    /\ cmdPc = "reading"
    /\ inner' = "free"
    /\ cmdPc' = "idle"
    /\ cmdResult' = IF ok THEN "Ok" ELSE "BusError"
    /\ UNCHANGED <<interrupt_waker, cmdCall, waitFlags, sawCompletion, waitHist,
                   sends, reads, completionPublished, replaced>>
    /\ CmdFrame

\* The accessor's bus read returns, and the accessor with it
GetterDone(ok) ==
    /\ cmdPc = "getting"
    /\ inner' = "free"
    /\ cmdPc' = "idle"
    /\ cmdResult' = IF ok THEN "Ok" ELSE "BusError"
    /\ UNCHANGED <<interrupt_waker, cmdCall, waitFlags, sawCompletion, waitHist,
                   sends, reads, completionPublished, replaced>>
    /\ CmdFrame

\* The suspension points of execute_command_no_timeout
ExecSuspended == {"lock1", "sending", "waiting", "lock3", "reading"}

\* Variant: on expiry the command is issued once more
CmdTimeoutRetries ==
    /\ cmdCall.op = "exec" /\ cmdCall.timed
    /\ cmdPc \in ExecSuspended
    /\ sends < 2
    /\ inner' = IF inner = "int" THEN "int" ELSE "cmd"
    /\ cmdPc' = IF inner = "int" THEN "lock1" ELSE "sending"
    /\ sends' = IF inner = "int" THEN sends ELSE sends + 1
    /\ UNCHANGED <<interrupt_waker, cmdCall, cmdResult, waitFlags, sawCompletion,
                   waitHist, reads, completionPublished>>
    /\ replaced' = FALSE
    /\ CmdFrame

\* Variant: on expiry the MutexGuard of the dropped future is not released
CmdTimeoutLeaksGuard ==
    /\ cmdCall.op = "exec" /\ cmdCall.timed
    /\ cmdPc \in ExecSuspended
    /\ inner' = inner
    /\ cmdPc' = "idle"
    /\ cmdResult' = "Timeout"
    /\ UNCHANGED <<interrupt_waker, cmdCall, waitFlags, sawCompletion, waitHist,
                   sends, reads, completionPublished>>
    /\ replaced' = FALSE
    /\ CmdFrame

\* with_timeout expires in execute_command: the inner future is dropped
\* where it is suspended, with the MutexGuard it may hold, and
\* PdError::Timeout is returned
CmdTimeout ==
    /\ cmdCall.op = "exec" /\ cmdCall.timed
    /\ cmdPc \in ExecSuspended
    /\ inner' = IF inner = "cmd" THEN "free" ELSE inner
    /\ cmdPc' = "idle"
    /\ cmdResult' = "Timeout"
    /\ UNCHANGED <<interrupt_waker, cmdCall, waitFlags, sawCompletion, waitHist,
                   sends, reads, completionPublished>>
    /\ replaced' = FALSE
    /\ CmdFrame

----------------------------------------------------------------------------
Next ==
    \/ \E m \in Masks : EnableInterruptsGuarded(m)
    \/ \E port \in PortIds, enabled \in BOOLEAN : EnableInterruptGuarded(port, enabled)
    \/ DisableAllInterruptsGuarded
    \/ InterruptGuardDrop
    \/ \E clear \in BOOLEAN, f \in Preds : WaitInterruptCall(clear, f)
    \/ WaitInterruptWake
    \/ \E port \in Slots, timed \in BOOLEAN : ExecuteCommand(port, timed)
    \/ GetterCall
    \/ CmdLockAcquired
    \/ \E ok \in BOOLEAN : SendCommandDone(ok)
    \/ \E ok \in BOOLEAN : ReadCommandResultDone(ok)
    \/ \E ok \in BOOLEAN : GetterDone(ok)
    \/ CmdTimeout
    \/ \E faultAt \in PortIds : ProcessInterrupt(faultAt)
    \/ \E faultAt \in PortIds : IntLockAcquired(faultAt)
    \/ \E ok \in BOOLEAN, faultAt \in PortIds : ClearInterruptDone(ok, faultAt)
    \/ \E p \in Slots, b \in EventBits : DeviceEvent(p, b)

Spec == Init /\ [][Next]_vars

\* The timer of with_timeout expires in the end, and the executor polls the
\* task it wakes
FairSpec == Spec /\ WF_vars(CmdTimeout)

\* The bus transaction in progress returns; the mutex lets one be in
\* progress at a time
BusTransactionEnds ==
    \E ok \in BOOLEAN :
        \/ SendCommandDone(ok)
        \/ ReadCommandResultDone(ok)
        \/ GetterDone(ok)
        \/ \E faultAt \in PortIds : ClearInterruptDone(ok, faultAt)

\* Bus transactions end, and a task waiting in lock_inner().await gets the
\* mutex when it is free again and again: Mutex::unlock wakes the waiter and
\* the executor polls it
LiveSpec ==
    /\ Spec
    /\ WF_vars(BusTransactionEnds)
    /\ SF_vars(\E faultAt \in PortIds : IntLockAcquired(faultAt))

----------------------------------------------------------------------------
\* Properties

\* The ports of the device
Ports == 0 .. (numPorts - 1)

\* The command task is in execute_command / execute_command_no_timeout
InExec == cmdCall.op = "exec" /\ cmdPc # "idle"

\* C1: in execute_command_no_timeout, read_command_result runs only after
\* send_command has run once and wait() has handed the command view a
\* snapshot whose slot for the command's port has cmd_1_completed set;
\* nothing else lets the command reach the read phase.
C1_ReadAfterCompletionSeen ==
    (cmdCall.op = "exec" /\ (cmdPc \in {"lock3", "reading"} \/ reads > 0))
        => (sends = 1 /\ reads <= 1 /\ sawCompletion)

C1_Witness ==
    /\ cmdCall.op = "exec" /\ cmdPc = "idle" /\ cmdResult = "Ok"
    /\ sends = 1 /\ reads = 1 /\ sawCompletion

\* C2: while the command view is suspended in wait_interrupt it does not
\* hold the device mutex, so a process_interrupt that waits for the mutex
\* finds it free.
C2_NoLockAcrossWait ==
    cmdPc = "waiting" => (inner # "cmd" /\ (intPc = "lock" => inner = "free"))

C2_Witness == InExec /\ cmdPc = "waiting" /\ inner = "int"

\* The command task is in execute_command, which has the timeout
InTimedExec == InExec /\ cmdCall.timed

\* C3: when no snapshot with the completed bit of the command's port is
\* published, execute_command waiting in phase 2 has sent the command once,
\* has not read the result and does not hold the mutex (a process_interrupt
\* waiting for it finds it free); it returns Timeout in the end, with the
\* command still sent once and the result never read.
C3_TimeoutWithoutCompletion ==
    /\ []((InTimedExec /\ cmdPc = "waiting")
             => /\ sends = 1 /\ reads = 0
                /\ inner # "cmd" /\ (intPc = "lock" => inner = "free"))
    /\ []((cmdCall.op = "exec" /\ cmdResult = "Timeout" /\ ~completionPublished)
             => (sends <= 1 /\ reads = 0))
    /\ ((InTimedExec /\ cmdPc = "waiting" /\ ~completionPublished)
           ~> ((cmdResult = "Timeout" /\ sends = 1 /\ reads = 0)
               \/ completionPublished))

C3_Witness ==
    /\ cmdCall.op = "exec" /\ cmdCall.timed /\ cmdResult = "Timeout"
    /\ events = 0 /\ ~completionPublished
    /\ sends = 1 /\ reads = 0
    /\ intResult = "Ok" /\ intPubs = 1

\* C4: wait_interrupt(true, f) discards what is pending at call time and
\* suspends, so the snapshot it returns is never the one that was pending;
\* wait_interrupt(false, f) returns at once the pending snapshot when that
\* satisfies f for some slot.
C4_ResetDropsPending ==
    /\ []((cmdCall.op = "wait" /\ cmdCall.clear /\ cmdResult = "Ok")
             => (~waitHist.got /\ waitFlags # <<>>))
    /\ [][\A clear \in BOOLEAN, f \in Preds :
            WaitInterruptCall(clear, f) =>
                IF clear
                THEN interrupt_waker' = <<>> /\ cmdPc' = "waiting"
                ELSE (interrupt_waker # <<>> /\ Satisfies(f, interrupt_waker[1]))
                        => /\ cmdPc' = "idle" /\ cmdResult' = "Ok"
                           /\ waitFlags' = interrupt_waker
                           /\ interrupt_waker' = <<>>]_vars

C4_Witness ==
    /\ cmdCall.op = "wait" /\ cmdCall.clear /\ cmdResult = "Ok"
    /\ waitHist.atCall /\ ~waitHist.got /\ waitFlags # <<>>

\* C5: every process_interrupt call publishes its snapshot exactly once,
\* however it ends.
C5_PublishesOnEveryExit == (intPc = "idle" /\ intResult # "none") => intPubs = 1

\* C6: in a process_interrupt call, a slot of a port that is out of range,
\* or whose mask entry is disabled when the port is scanned, stays zero,
\* and clear_interrupt is not called for that port.
C6_DisabledWhenScannedIsSkipped ==
    /\ intClearedOff = {}
    /\ \A p \in Slots : p >= numPorts => (flags[p] = {} /\ p \notin intCleared)

\* C7: while the guard made by enable_interrupts_guarded(M) is alive the
\* mask is M, and once it is dropped the mask is the mask from before the
\* call.
C7_GuardRoundTrip ==
    (cmdCall.op = "guard_mask" /\ cmdResult = "Ok")
        => IF guard # <<>>
           THEN interrupts_enabled = cmdCall.mask
           ELSE interrupts_enabled = preMask

C7_Witness ==
    /\ cmdCall.op = "guard_mask" /\ cmdResult = "Ok" /\ guard = <<>>
    /\ cmdCall.mask # preMask /\ interrupts_enabled = preMask

\* C8: while the guard made by enable_interrupt_guarded(port, enabled) is
\* alive, the port's mask entry is `enabled` and every other entry has its
\* value from before the call; once the guard is dropped the port's entry
\* has its value from before the call too.
C8_PortGuardFrame ==
    (cmdCall.op = "guard_port" /\ cmdResult = "Ok")
        => /\ \A q \in Slots \ {cmdCall.port} : interrupts_enabled[q] = preMask[q]
           /\ interrupts_enabled[cmdCall.port] =
                  (IF guard # <<>> THEN cmdCall.enabled ELSE preMask[cmdCall.port])

C8_Witness ==
    /\ cmdCall.op = "guard_port" /\ cmdResult = "Ok" /\ guard # <<>>
    /\ numPorts = MAX_SUPPORTED_PORTS
    /\ preMask[cmdCall.port] /\ ~cmdCall.enabled
    /\ ~interrupts_enabled[cmdCall.port]

\* C9: enable_interrupt_guarded(port, enabled) with port >= num_ports
\* returns InvalidPort, makes no guard and leaves the mask as it was.
C9_InvalidPortRejected ==
    (cmdCall.op = "guard_port" /\ cmdCall.port >= numPorts)
        => /\ cmdResult = "InvalidPort"
           /\ guard = <<>>
           /\ interrupts_enabled = preMask

C9_Witness ==
    /\ cmdCall.op = "guard_port" /\ cmdResult = "InvalidPort"
    /\ cmdCall.port >= numPorts /\ cmdCall.port < MAX_SUPPORTED_PORTS
    /\ ~cmdCall.enabled

\* C10: a process_interrupt call that reads a mask with every port of the
\* device disabled calls clear_interrupt for no port, keeps every slot zero,
\* and returns Ok after publishing that snapshot once.
C10_AllDisabledTouchesNothing ==
    (\A p \in Ports : ~intEnabled[p])
        => /\ intCleared = {}
           /\ flags = ZeroFlags
           /\ intPc # "clearing"
           /\ (intPc = "idle" => (intResult = "Ok" /\ intPubs = 1))

C10_Witness ==
    /\ \A p \in Ports : ~intEnabled[p]
    /\ intPc = "idle" /\ intResult = "Ok" /\ intPubs = 1
    /\ interrupt_waker = <<ZeroFlags>>
    /\ IrqAsserted(devCause)

\* C11: clear_interrupt runs only for a port enabled in the mask the call
\* read, and only when the pin read just before it was asserted; when
\* clearing a port's cause leaves the line deasserted and the pin reads for
\* the ports after it do not fail, those ports are not read, their slots
\* stay zero, and the call returns Ok.
C11_ClearOnlyWhenAsserted ==
    /\ [](/\ intCleared \subseteq {p \in Ports : intEnabled[p]}
          /\ intPc = "clearing" => IrqAsserted(devCause)
          /\ \A p \in Slots : p \notin intCleared => flags[p] = {})
    /\ [][\A faultAt \in PortIds :
            (/\ ClearInterruptDone(TRUE, faultAt)
             /\ ~IrqAsserted(devCause')
             /\ (faultAt <= intPort \/ faultAt >= numPorts))
                => /\ intPc' = "idle" /\ intResult' = "Ok"
                   /\ intCleared' = intCleared
                   /\ \A q \in Slots : q > intPort => flags'[q] = {}]_vars

C11_Witness ==
    /\ numPorts = MAX_SUPPORTED_PORTS /\ intEnabled = AllEnabled
    /\ intPc = "idle" /\ intResult = "Ok"
    /\ intCleared = {0} /\ flags[0] # {} /\ flags[1] = {}

\* C12: no step of process_interrupt changes the Interrupt Mask; on two
\* ports with the mask read as [true, false] and a cause pending on port 1
\* only, the clear of port 0 reads zero, the call returns Ok and publishes
\* [zero, zero], and port 1's cause stays on the device.
C12_MaskNotWritten ==
    /\ [][\A faultAt \in PortIds :
            (\/ ProcessInterrupt(faultAt)
             \/ IntLockAcquired(faultAt)
             \/ \E ok \in BOOLEAN : ClearInterruptDone(ok, faultAt))
                => interrupts_enabled' = interrupts_enabled]_vars
    /\ [][\A faultAt \in PortIds :
            (/\ ClearInterruptDone(TRUE, faultAt)
             /\ numPorts = MAX_SUPPORTED_PORTS
             /\ intEnabled = [p \in Slots |-> p = 0]
             /\ devCause[0] = {} /\ devCause[1] # {})
                => /\ intPc' = "idle" /\ intResult' = "Ok"
                   /\ flags' = ZeroFlags
                   /\ interrupt_waker' = <<ZeroFlags>>
                   /\ devCause' = devCause
                   /\ interrupts_enabled' = interrupts_enabled]_vars

C12_Witness ==
    /\ numPorts = MAX_SUPPORTED_PORTS
    /\ interrupts_enabled = [p \in Slots |-> p = 0]
    /\ intEnabled = interrupts_enabled
    /\ intPc = "idle" /\ intResult = "Ok" /\ intCleared = {0}
    /\ interrupt_waker = <<ZeroFlags>>
    /\ devCause[0] = {} /\ devCause[1] # {}

\* C13: the mutex has one holder at most, and a task is inside a bus
\* transaction (send_command, read_command_result, an accessor's read,
\* clear_interrupt) exactly while it is the holder; so the two tasks are
\* never inside bus transactions at the same time.
C13_BusOnlyUnderLock ==
    /\ inner \in {"free", "cmd", "int"}
    /\ (cmdPc \in {"sending", "reading", "getting"}) <=> (inner = "cmd")
    /\ (intPc = "clearing") <=> (inner = "int")
    /\ ~(cmdPc \in {"sending", "reading", "getting"} /\ intPc = "clearing")

C13_Witness ==
    /\ cmdPc = "reading" /\ inner = "cmd" /\ intPc = "lock"

C15_LockFreeWhenIdle ==
    /\ (cmdPc = "idle") => (inner # "cmd")
    /\ (intPc = "idle") => (inner # "int")
    /\ (cmdPc = "idle" /\ intPc = "idle") => (inner = "free")

C15_Witness ==
    /\ cmdPc = "idle" /\ cmdCall.op = "exec" /\ cmdResult = "Timeout" /\ sends > 0
    /\ intPc = "idle" /\ intResult \in {"Failed", "BusError"}
    /\ inner = "free"

\* C16: the signal holds one snapshot at most; a publish leaves exactly the
\* snapshot it published pending, whatever was pending before; wait() returns
\* only when a snapshot is pending, hands over that one and leaves none
\* pending, so a wait that follows with nothing published suspends.
C16_SingleSlot ==
    /\ [](Len(interrupt_waker) <= 1)
    /\ [](replaced => (waitFlags # <<>> \/ interrupt_waker # <<>>))
    /\ [][\A faultAt \in PortIds :
            (/\ \/ ProcessInterrupt(faultAt)
                \/ IntLockAcquired(faultAt)
                \/ ClearInterruptDone(TRUE, faultAt)
             /\ intPc' = "idle" /\ intResult' = "Ok")
                => interrupt_waker' = <<flags'>>]_vars
    /\ [][WaitInterruptWake
            => /\ interrupt_waker # <<>>
               /\ interrupt_waker' = <<>>
               /\ (cmdCall.op = "wait" /\ cmdPc' = "idle")
                      => waitFlags' = interrupt_waker]_vars
    /\ [][\A f \in Preds :
            (WaitInterruptCall(FALSE, f) /\ interrupt_waker = <<>>)
                => (cmdPc' = "waiting" /\ interrupt_waker' = <<>>)]_vars

C16_Witness ==
    /\ cmdCall.op = "wait" /\ cmdPc = "idle" /\ cmdResult = "Ok"
    /\ replaced /\ waitFlags # <<>> /\ interrupt_waker = <<>>

\* C17: when send_command fails, the command returns that error, timed or
\* not: nothing is sent again, the signal is left as it is (a pending
\* snapshot stays pending), read_command_result has not run, and the mutex
\* is released.
C17_SendErrorReturned ==
    /\ []((cmdCall.op = "exec" /\ cmdResult = "BusError" /\ reads = 0)
             => (cmdPc = "idle" /\ sends = 1 /\ ~sawCompletion))
    /\ [][SendCommandDone(FALSE)
            => /\ cmdPc' = "idle" /\ cmdResult' = "BusError"
               /\ interrupt_waker' = interrupt_waker
               /\ sends' = sends /\ reads' = 0
               /\ inner' = "free"]_vars

C17_Witness ==
    /\ cmdCall.op = "exec" /\ cmdCall.timed
    /\ cmdPc = "idle" /\ cmdResult = "BusError" /\ reads = 0
    /\ interrupt_waker # <<>>

\* C18: a process_interrupt call that has read and cleared a cause on the
\* device has published it when it ends: whenever the call is over and a
\* slot of its flags holds a cleared cause, the call has signalled once and
\* returned Ok.
C18_ClearedIsPublished ==
    (intPc = "idle" /\ \E p \in Ports : flags[p] # {})
        => (intPubs = 1 /\ intResult = "Ok")

\* C19: a snapshot with cmd_1_completed for the command's port, published
\* while the command waits in phase 2, is not lost to the command: as long
\* as the command has not taken it and still waits, the pending snapshot
\* has that bit, whatever process_interrupt publishes in between; so the
\* command, once polled, goes on to phase 3.
C19_CompletionNotLost ==
    [][(/\ InExec /\ cmdPc = "waiting" /\ cmdPc' = "waiting"
        /\ interrupt_waker # <<>>
        /\ "cmd1" \in interrupt_waker[1][cmdCall.port])
           => (/\ interrupt_waker' # <<>>
               /\ "cmd1" \in interrupt_waker'[1][cmdCall.port])]_vars

\* C20: the mask of a new Controller is all-enabled, and after any guard
\* calls and drops made through the command view the mask is all-enabled
\* whenever no guard is alive; a guard that is alive holds the all-enabled
\* mask to reinstall.
C20_AllEnabledWithoutGuard ==
    /\ (guard = <<>>) => (interrupts_enabled = AllEnabled)
    /\ (guard # <<>>) => (guard[1] = AllEnabled)

C20_Witness ==
    /\ cmdCall.op = "guard_none" /\ cmdResult = "Ok" /\ guard = <<>>
    /\ preMask = AllEnabled /\ interrupts_enabled = AllEnabled

====
